---- MODULE Spec2Model ----
(***************************************************************************)
(* Model of src/main.py: the FuzzyTriangle class (constructor, derivative) *)
(* and the module-level script that reads three numbers, builds the base   *)
(* fuzzy number, derives a second one, prints both and shows a figure.     *)
(*                                                                         *)
(* The script parses its inputs with float(), so every value the class     *)
(* sees is a binary floating-point number.  The model keeps that: values   *)
(* are floats of a small binary format (MBits bits of precision, EMax      *)
(* binades above the subnormal range, round-to-nearest-even, overflow to   *)
(* infinity, NaN), the same arithmetic as IEEE-754 double with smaller     *)
(* parameters.  A finite float is held as an integer number of units of    *)
(* the smallest subnormal.  Signed zero is not distinguished.              *)
(***************************************************************************)
EXTENDS Integers, Sequences, FiniteSets

VARIABLES pc, a, b, c, heap, fuzzy_point, fuzzy_derivative, out, exc, figure, calls

vars == <<pc, a, b, c, heap, fuzzy_point, fuzzy_derivative, out, exc, figure, calls>>

\* ---------------------------------------------------------------- bounds
MBits == 2
EMax == 2
TextPad == 2
MaxCalls == 2

\* ------------------------------------------------------- float arithmetic
RECURSIVE Pow2(_)
Pow2(n) == IF n = 0 THEN 1 ELSE 2 * Pow2(n - 1)

Abs(x) == IF x < 0 THEN -x ELSE x

MaxFin == (Pow2(MBits) - 1) * Pow2(EMax)

Fin(n) == [k |-> "fin", v |-> n]
PInf == [k |-> "inf", v |-> 1]
NInf == [k |-> "inf", v |-> -1]
NaN == [k |-> "nan", v |-> 0]
None == [k |-> "none", v |-> 0]

\* spacing of the floats around the magnitude n (exponent unbounded above)
RECURSIVE Quantum(_, _)
Quantum(n, e) == IF n < Pow2(MBits + e) THEN Pow2(e) ELSE Quantum(n, e + 1)

\* round-to-nearest, ties to the even mantissa, of the magnitude n
RoundMag(n) ==
    LET q == Quantum(n, 0)
        lo == (n \div q) * q
        rem == n - lo
    IN  IF 2 * rem < q THEN lo
        ELSE IF 2 * rem > q THEN lo + q
        ELSE IF (lo \div q) % 2 = 0 THEN lo ELSE lo + q

\* the float nearest to the exact value x; overflow gives an infinity
Round(x) ==
    LET m == RoundMag(Abs(x))
    IN  IF m > MaxFin THEN (IF x < 0 THEN NInf ELSE PInf)
        ELSE Fin(IF x < 0 THEN -m ELSE m)

FinVals == {n \in (-MaxFin)..MaxFin : RoundMag(Abs(n)) = Abs(n)}

Floats == {Fin(n) : n \in FinVals} \cup {PInf, NInf, NaN}

\* x - y
FSub(x, y) ==
    IF x.k = "nan" \/ y.k = "nan" THEN NaN
    ELSE IF x.k = "inf" THEN (IF y.k = "inf" /\ y.v = x.v THEN NaN ELSE x)
    ELSE IF y.k = "inf" THEN (IF y.v = 1 THEN NInf ELSE PInf)
    ELSE Round(x.v - y.v)

\* x + y
FAdd(x, y) ==
    IF x.k = "nan" \/ y.k = "nan" THEN NaN
    ELSE IF x.k = "inf" THEN (IF y.k = "inf" /\ y.v # x.v THEN NaN ELSE x)
    ELSE IF y.k = "inf" THEN y
    ELSE Round(x.v + y.v)

\* 2 * x
FMul2(x) == IF x.k = "fin" THEN Round(2 * x.v) ELSE x

\* position of a non-NaN float on the extended real line
Key(x) == IF x.k = "fin" THEN x.v ELSE x.v * (MaxFin + 1)

\* x < y and x >= y; every comparison with a NaN is false
FLt(x, y) == x.k # "nan" /\ y.k # "nan" /\ Key(x) < Key(y)
FGe(x, y) == x.k # "nan" /\ y.k # "nan" /\ Key(x) >= Key(y)
FEq(x, y) == x.k # "nan" /\ y.k # "nan" /\ Key(x) = Key(y)

\* ------------------------------------------------------------ input text
\* what can be typed at a prompt: a decimal numeral, the words float()
\* accepts, or text that is not a number
Texts == {[t |-> "dec", n |-> i] : i \in (-(MaxFin + TextPad))..(MaxFin + TextPad)}
         \cup {[t |-> "inf", n |-> 1], [t |-> "inf", n |-> -1],
               [t |-> "nan", n |-> 0], [t |-> "abc", n |-> 0]}

ParseMsg == "could not convert string to float"
InvalidMsg == "Invalid fuzzy number triplet. Must satisfy: left < center < right."

\* float(text): the nearest float, or ValueError
float(tok) ==
    IF tok.t = "dec" THEN [ok |-> TRUE, val |-> Round(tok.n)]
    ELSE IF tok.t = "inf" THEN [ok |-> TRUE, val |-> IF tok.n = 1 THEN PInf ELSE NInf]
    ELSE IF tok.t = "nan" THEN [ok |-> TRUE, val |-> NaN]
    ELSE [ok |-> FALSE, val |-> None]

\* --------------------------------------------------------- FuzzyTriangle
NoObj == [left |-> None, center |-> None, right |-> None,
          left_spread |-> None, right_spread |-> None]

\* a plausible slip: the left spread measured from the wrong endpoint
FuzzyTriangleWrongSpread(left, center, right) ==
    IF FGe(left, center) \/ FGe(center, right)
    THEN [raised |-> TRUE, msg |-> InvalidMsg, obj |-> NoObj]
    ELSE [raised |-> FALSE, msg |-> "",
          obj |-> [left |-> left, center |-> center, right |-> right,
                   left_spread |-> FSub(right, center),
                   right_spread |-> FSub(right, center)]]

\* FuzzyTriangle.__init__
FuzzyTriangle(left, center, right) ==
    IF FGe(left, center) \/ FGe(center, right)
    THEN [raised |-> TRUE, msg |-> InvalidMsg, obj |-> NoObj]
    ELSE [raised |-> FALSE, msg |-> "",
          obj |-> [left |-> left, center |-> center, right |-> right,
                   left_spread |-> FSub(center, left),
                   right_spread |-> FSub(right, center)]]

\* a plausible slip: the right spread left unscaled
derivativeUnscaledRight(self) ==
    LET new_center == FMul2(self.center)
        new_left_spread == FMul2(self.left_spread)
        new_right_spread == self.right_spread
    IN  FuzzyTriangle(FSub(new_center, new_left_spread), new_center,
                      FAdd(new_center, new_right_spread))

\* FuzzyTriangle.derivative
derivative(self) ==
    LET new_center == FMul2(self.center)
        new_left_spread == FMul2(self.left_spread)
        new_right_spread == FMul2(self.right_spread)
    IN  FuzzyTriangle(FSub(new_center, new_left_spread), new_center,
                      FAdd(new_center, new_right_spread))

\* FuzzyTriangle.__repr__: the three bounds
Repr(obj) == <<obj.left, obj.center, obj.right>>

\* ------------------------------------------------------------ the script
NoExc == [raised |-> FALSE, msg |-> "", line |-> 0]
NoFigure == [panels |-> 0, shown |-> FALSE]
NoTriple == <<None, None, None>>

Init ==
    /\ pc = "read_a"
    /\ a = None /\ b = None /\ c = None
    /\ heap = <<>>
    /\ fuzzy_point = 0 /\ fuzzy_derivative = 0
    /\ out = <<>>
    /\ exc = NoExc
    /\ figure = NoFigure
    /\ calls = <<>>

\* line 57
ReadA ==
    /\ pc = "read_a"
    /\ \E tok \in Texts :
         LET r == float(tok) IN
         IF r.ok
         THEN /\ a' = r.val /\ pc' = "read_b" /\ exc' = exc
         ELSE /\ a' = a /\ pc' = "except"
              /\ exc' = [raised |-> TRUE, msg |-> ParseMsg, line |-> 57]
    /\ UNCHANGED <<b, c, heap, fuzzy_point, fuzzy_derivative, out, figure, calls>>

\* line 58
ReadB ==
    /\ pc = "read_b"
    /\ \E tok \in Texts :
         LET r == float(tok) IN
         IF r.ok
         THEN /\ b' = r.val /\ pc' = "read_c" /\ exc' = exc
         ELSE /\ b' = b /\ pc' = "except"
              /\ exc' = [raised |-> TRUE, msg |-> ParseMsg, line |-> 58]
    /\ UNCHANGED <<a, c, heap, fuzzy_point, fuzzy_derivative, out, figure, calls>>

\* line 59
ReadC ==
    /\ pc = "read_c"
    /\ \E tok \in Texts :
         LET r == float(tok) IN
         IF r.ok
         THEN /\ c' = r.val /\ pc' = "construct" /\ exc' = exc
         ELSE /\ c' = c /\ pc' = "except"
              /\ exc' = [raised |-> TRUE, msg |-> ParseMsg, line |-> 59]
    /\ UNCHANGED <<a, b, heap, fuzzy_point, fuzzy_derivative, out, figure, calls>>

\* line 62
Construct ==
    /\ pc = "construct"
    /\ LET r == FuzzyTriangle(a, b, c) IN
       IF r.raised
       THEN /\ exc' = [raised |-> TRUE, msg |-> r.msg, line |-> 62]
            /\ pc' = "except"
            /\ UNCHANGED <<heap, fuzzy_point>>
       ELSE /\ heap' = Append(heap, r.obj)
            /\ fuzzy_point' = Len(heap) + 1
            /\ pc' = "print_base"
            /\ exc' = exc
    /\ UNCHANGED <<a, b, c, fuzzy_derivative, out, figure, calls>>

\* line 63
PrintBase ==
    /\ pc = "print_base"
    /\ out' = Append(out, [kind |-> "created", msg |-> "", trip |-> Repr(heap[fuzzy_point])])
    /\ pc' = "derive"
    /\ UNCHANGED <<a, b, c, heap, fuzzy_point, fuzzy_derivative, exc, figure, calls>>

\* line 66
Derive ==
    /\ pc = "derive"
    /\ LET r == derivative(heap[fuzzy_point]) IN
       IF r.raised
       THEN /\ exc' = [raised |-> TRUE, msg |-> r.msg, line |-> 66]
            /\ pc' = "except"
            /\ calls' = Append(calls, [recv |-> fuzzy_point, raised |-> TRUE, res |-> 0])
            /\ UNCHANGED <<heap, fuzzy_derivative>>
       ELSE /\ heap' = Append(heap, r.obj)
            /\ fuzzy_derivative' = Len(heap) + 1
            /\ calls' = Append(calls, [recv |-> fuzzy_point, raised |-> FALSE, res |-> Len(heap) + 1])
            /\ pc' = "print_derivative"
            /\ exc' = exc
    /\ UNCHANGED <<a, b, c, fuzzy_point, out, figure>>

\* line 67
PrintDerivative ==
    /\ pc = "print_derivative"
    /\ out' = Append(out, [kind |-> "derivative", msg |-> "", trip |-> Repr(heap[fuzzy_derivative])])
    /\ pc' = "render"
    /\ UNCHANGED <<a, b, c, heap, fuzzy_point, fuzzy_derivative, exc, figure, calls>>

\* lines 70-121: the four panels are drawn
Render ==
    /\ pc = "render"
    /\ figure' = [panels |-> 4, shown |-> FALSE]
    /\ pc' = "show"
    /\ UNCHANGED <<a, b, c, heap, fuzzy_point, fuzzy_derivative, out, exc, calls>>

\* line 122
Show ==
    /\ pc = "show"
    /\ figure' = [figure EXCEPT !.shown = TRUE]
    /\ pc' = "done"
    /\ UNCHANGED <<a, b, c, heap, fuzzy_point, fuzzy_derivative, out, exc, calls>>

\* a plausible slip: a handler that reports only the triplet error and lets
\* any other ValueError end the run with nothing printed
ExceptTripletOnly ==
    /\ pc = "except"
    /\ out' = IF exc.msg = InvalidMsg
              THEN Append(out, [kind |-> "Error:", msg |-> exc.msg, trip |-> NoTriple])
              ELSE out
    /\ pc' = "done"
    /\ UNCHANGED <<a, b, c, heap, fuzzy_point, fuzzy_derivative, exc, figure, calls>>

\* lines 124-125
ExceptValueError ==
    /\ pc = "except"
    /\ out' = Append(out, [kind |-> "Error:", msg |-> exc.msg, trip |-> NoTriple])
    /\ pc' = "done"
    /\ UNCHANGED <<a, b, c, heap, fuzzy_point, fuzzy_derivative, exc, figure, calls>>

Next ==
    \/ ReadA \/ ReadB \/ ReadC
    \/ Construct \/ PrintBase
    \/ Derive \/ PrintDerivative
    \/ Render \/ Show
    \/ ExceptValueError

Spec == Init /\ [][Next]_vars

\* ------------------------------------------- the class used on its own
\* A client of the class: one base number built from any three floats,
\* then derivative() called on any instance built so far.
InitLib ==
    /\ pc = "lib"
    /\ a = None /\ b = None /\ c = None
    /\ heap = <<>>
    /\ fuzzy_point = 0 /\ fuzzy_derivative = 0
    /\ out = <<>>
    /\ exc = NoExc
    /\ figure = NoFigure
    /\ calls = <<>>

\* FuzzyTriangle(left, center, right) called by the client
LibNew ==
    /\ pc = "lib"
    /\ heap = <<>>
    /\ ~exc.raised
    /\ \E left \in Floats, center \in Floats, right \in Floats :
         LET r == FuzzyTriangle(left, center, right) IN
         IF r.raised
         THEN /\ exc' = [raised |-> TRUE, msg |-> r.msg, line |-> 15]
              /\ heap' = heap
         ELSE /\ heap' = Append(heap, r.obj)
              /\ exc' = exc
    /\ UNCHANGED <<pc, a, b, c, fuzzy_point, fuzzy_derivative, out, figure, calls>>

\* a plausible slip: scale the receiver in place and return it
LibDerivativeInPlace(self) ==
    /\ pc = "lib"
    /\ self \in 1..Len(heap)
    /\ Len(calls) < MaxCalls
    /\ LET r == derivative(heap[self]) IN
       IF r.raised
       THEN /\ exc' = [raised |-> TRUE, msg |-> r.msg, line |-> 15]
            /\ calls' = Append(calls, [recv |-> self, raised |-> TRUE, res |-> 0])
            /\ heap' = heap
       ELSE /\ heap' = [heap EXCEPT ![self] = r.obj]
            /\ calls' = Append(calls, [recv |-> self, raised |-> FALSE, res |-> self])
            /\ exc' = exc
    /\ UNCHANGED <<pc, a, b, c, fuzzy_point, fuzzy_derivative, out, figure>>

\* heap[self].derivative() called by the client
LibDerivative(self) ==
    /\ pc = "lib"
    /\ self \in 1..Len(heap)
    /\ Len(calls) < MaxCalls
    /\ LET r == derivative(heap[self]) IN
       IF r.raised
       THEN /\ exc' = [raised |-> TRUE, msg |-> r.msg, line |-> 15]
            /\ calls' = Append(calls, [recv |-> self, raised |-> TRUE, res |-> 0])
            /\ heap' = heap
       ELSE /\ heap' = Append(heap, r.obj)
            /\ calls' = Append(calls, [recv |-> self, raised |-> FALSE, res |-> Len(heap) + 1])
            /\ exc' = exc
    /\ UNCHANGED <<pc, a, b, c, fuzzy_point, fuzzy_derivative, out, figure>>

NextLib ==
    \/ LibNew
    \/ \E self \in 1..Len(heap) : LibDerivative(self)

SpecLib == InitLib /\ [][NextLib]_vars

\* ---------------------------------------------------------------- claims
Ordered(left, center, right) == FLt(left, center) /\ FLt(center, right)

OrderedObj(obj) == Ordered(obj.left, obj.center, obj.right)

\* the three bounds are real numbers (no infinity, no NaN)
Real(left, center, right) == left.k = "fin" /\ center.k = "fin" /\ right.k = "fin"

RealObj(obj) == Real(obj.left, obj.center, obj.right)

\* a real-valued instance with left < center < right
ValidObj(obj) == RealObj(obj) /\ OrderedObj(obj)

\* the script has run the constructor on the three parsed inputs
BaseAttempted == c.k # "none" /\ pc # "construct"

BaseRaised == exc.raised /\ exc.line = 62

ErrorLine(msg) == [kind |-> "Error:", msg |-> msg, trip |-> NoTriple]

HasKind(kind) == \E i \in 1..Len(out) : out[i].kind = kind

\* C1: construction raises ValueError with the triplet message exactly for
\* the triplets that do not satisfy left < center < right.
C1_RaisedIffNotOrdered ==
    BaseAttempted =>
        ((~Ordered(a, b, c)) <=> (BaseRaised /\ exc.msg = InvalidMsg))

\* C2: for a < b < c construction succeeds and the instance stores the
\* three bounds, left_spread = b - a and right_spread = c - b.
C2_ConstructStores ==
    (BaseAttempted /\ Ordered(a, b, c)) =>
        /\ ~BaseRaised
        /\ fuzzy_point \in 1..Len(heap)
        /\ heap[fuzzy_point] = [left |-> a, center |-> b, right |-> c,
                                left_spread |-> FSub(b, a),
                                right_spread |-> FSub(c, b)]

C2_Witness ==
    /\ pc = "print_base"
    /\ Ordered(a, b, c)
    /\ heap[fuzzy_point].left_spread # heap[fuzzy_point].right_spread

\* C3: derivative() never raises on a valid instance (stated for real
\* a < b < c, the narrowest reading of "valid").
C3_DerivativeNeverRaises ==
    \A i \in 1..Len(calls) :
        ValidObj(heap[calls[i].recv]) => ~calls[i].raised

\* C4: every instance that exists satisfies left < center < right, and no
\* step changes the fields of an instance already built.
C4_AlwaysOrderedImmutable ==
    /\ [](\A i \in 1..Len(heap) : OrderedObj(heap[i]))
    /\ [][\A i \in 1..Len(heap) : i \in 1..Len(heap') /\ heap'[i] = heap[i]]_vars

\* C5: for a valid (real a < b < c) instance, derivative() returns the
\* triplet (2a, 2b, 2c).
C5_Linearity ==
    \A i \in 1..Len(calls) :
        (~calls[i].raised /\ ValidObj(heap[calls[i].recv])) =>
            LET old == heap[calls[i].recv]
                new == heap[calls[i].res]
            IN  /\ FEq(new.left, FMul2(old.left))
                /\ FEq(new.center, FMul2(old.center))
                /\ FEq(new.right, FMul2(old.right))

\* C6: the instance returned by derivative() on a valid number with center
\* b and spreads s_l, s_r has center 2b, stored spreads 2*s_l and 2*s_r,
\* left = 2b - 2*s_l and right = 2b + 2*s_r.
C6_DerivedShape ==
    \A i \in 1..Len(calls) :
        (~calls[i].raised /\ ValidObj(heap[calls[i].recv])) =>
            LET old == heap[calls[i].recv]
                new == heap[calls[i].res]
            IN  /\ FEq(new.center, FMul2(old.center))
                /\ FEq(new.left_spread, FMul2(old.left_spread))
                /\ FEq(new.right_spread, FMul2(old.right_spread))
                /\ FEq(new.left, FSub(FMul2(old.center), FMul2(old.left_spread)))
                /\ FEq(new.right, FAdd(FMul2(old.center), FMul2(old.right_spread)))

\* C7: when the ordering check fails (base or derived number; stated for
\* real inputs) the run
\* prints exactly one "Error:" line with the triplet message and ends; no
\* figure, no description line.
C7_TripletErrorOnlyOutput ==
    (exc.raised /\ exc.msg = InvalidMsg /\ Real(a, b, c)) =>
        /\ figure = NoFigure
        /\ ~HasKind("created") /\ ~HasKind("derivative")
        /\ pc \in {"except", "done"}
        /\ (pc = "done" => out = <<ErrorLine(InvalidMsg)>>)

\* C8 as stated: text that is not a number is not caught by the handler:
\* no "Error:" line is printed for it.
C8_ParseFailureUnhandled ==
    (exc.raised /\ exc.msg = ParseMsg) => ~HasKind("Error:")

\* C8 as amended: text that is not a number at any of the three prompts
\* raises ValueError in float(), the same handler catches it, prints one
\* "Error:" line carrying the parser's message and the run ends with no
\* instance built, no description line and no figure.
C8_ParseFailureHandled ==
    (exc.raised /\ exc.line \in {57, 58, 59}) =>
        /\ exc.msg = ParseMsg
        /\ heap = <<>> /\ calls = <<>>
        /\ figure = NoFigure
        /\ pc \in {"except", "done"}
        /\ (pc = "except" => out = <<>>)
        /\ (pc = "done" => out = <<ErrorLine(ParseMsg)>>)

C8_Witness ==
    /\ pc = "done"
    /\ exc.raised /\ exc.line = 58
    /\ a.k = "fin" /\ b.k = "none"
    /\ out = <<ErrorLine(ParseMsg)>>

\* C9: a run with a valid (real a < b < c) triplet constructs, prints the base line,
\* derives, prints the derivative line and shows the figure, each once and
\* in this order; the figure is never shown before both lines are printed;
\* a run never both shows the figure and prints the error line.
C9_PipelineOrder ==
    /\ (BaseAttempted /\ Ordered(a, b, c) /\ Real(a, b, c)) =>
          /\ pc # "except"
          /\ (pc = "done" =>
                /\ Len(heap) = 2 /\ Len(calls) = 1
                /\ out = <<[kind |-> "created", msg |-> "", trip |-> <<a, b, c>>],
                           [kind |-> "derivative", msg |-> "",
                            trip |-> Repr(heap[fuzzy_derivative])]>>
                /\ figure = [panels |-> 4, shown |-> TRUE])
    /\ (figure.shown => (Len(out) = 2 /\ out[1].kind = "created"
                         /\ out[2].kind = "derivative"))
    /\ ~(figure.shown /\ HasKind("Error:"))

\* C10: derivative() leaves every field of the receiver (and of every other
\* instance) unchanged, returns an instance that did not exist before the
\* call, and two calls on the same instance give equal triplets.
C10_DerivativePure ==
    /\ [][Len(calls') > Len(calls) =>
            /\ \A i \in 1..Len(heap) : i \in 1..Len(heap') /\ heap'[i] = heap[i]
            /\ (~calls'[Len(calls')].raised =>
                    /\ calls'[Len(calls')].res \notin 1..Len(heap)
                    /\ calls'[Len(calls')].res \in 1..Len(heap')
                    /\ calls'[Len(calls')].res # calls'[Len(calls')].recv)]_vars
    /\ [](\A i \in 1..Len(calls), j \in 1..Len(calls) :
            calls[i].recv = calls[j].recv =>
                /\ calls[i].raised = calls[j].raised
                /\ (~calls[i].raised =>
                       Repr(heap[calls[i].res]) = Repr(heap[calls[j].res])))

C10_Witness ==
    /\ Len(calls) = 2
    /\ calls[1].recv = calls[2].recv
    /\ ~calls[1].raised /\ ~calls[2].raised
    /\ calls[1].res # calls[2].res

====
